---- MODULE Spec2Model ----
(***************************************************************************)
(* A model of the gradio_rerun component (backend/gradio_rerun/rerun.py,   *)
(* backend/gradio_rerun/events.py) and of the demo application             *)
(* (demo/app.py, demo/space.py).                                           *)
(*                                                                         *)
(* Python values are records tagged by their type in the field t, so that  *)
(* values of different types can be compared.  A Python str is a TLA+      *)
(* string, read character by character with SubSeq.                        *)
(***************************************************************************)
EXTENDS Integers, Sequences, FiniteSets, TLC

\* Bounds of the model.
MaxFiles == 2
MaxItems == 2

----------------------------------------------------------------------------
\* Python values.

None == [t |-> "None"]
Str(s) == [t |-> "str", v |-> s]
PyInt(n) == [t |-> "int", v |-> n]
\* A float, held in tenths.
PyFloat(tenths) == [t |-> "float", tenths |-> tenths]
Bytes(b) == [t |-> "bytes", v |-> b]
List(xs) == [t |-> "list", v |-> xs]
Tuple(xs) == [t |-> "tuple", v |-> xs]
Raise(e) == [t |-> "raise", exc |-> e]

IsRaise(r) == r.t = "raise"

\* str.startswith
StartsWith(s, p) == Len(s) >= Len(p) /\ SubSeq(s, 1, Len(p)) = p

----------------------------------------------------------------------------
\* pathlib (POSIX flavour): a path is parsed into its components; empty
\* components and "." components are dropped.  Strings that begin with
\* exactly two slashes are not among the inputs.

RECURSIVE SplitFrom(_, _, _)
\* The "/"-separated pieces of s from position i on, cur being the piece
\* read so far.
SplitFrom(s, i, cur) ==
    IF i > Len(s) THEN <<cur>>
    ELSE IF SubSeq(s, i, i) = "/" THEN <<cur>> \o SplitFrom(s, i + 1, "")
    ELSE SplitFrom(s, i + 1, cur \o SubSeq(s, i, i))

PathParts(s) == SelectSeq(SplitFrom(s, 1, ""), LAMBDA c : c # "" /\ c # ".")

RECURSIVE JoinParts(_)
JoinParts(ps) ==
    IF Len(ps) = 0 THEN ""
    ELSE IF Len(ps) = 1 THEN ps[1]
    ELSE ps[1] \o "/" \o JoinParts(Tail(ps))

\* str(Path(s))
PathStr(s) ==
    IF StartsWith(s, "/") THEN "/" \o JoinParts(PathParts(s))
    ELSE IF Len(PathParts(s)) = 0 THEN "."
    ELSE JoinParts(PathParts(s))

\* Path(s).name
PathName(s) ==
    IF Len(PathParts(s)) = 0 THEN "" ELSE PathParts(s)[Len(PathParts(s))]

\* Path(s): the object keeps the normalised text.
Path(s) == [t |-> "Path", v |-> PathStr(s)]

\* str(x) of a str or a Path
StrOf(x) == x.v

----------------------------------------------------------------------------
\* gradio data classes.

FileData(path, orig_name, size) ==
    [t |-> "FileData", path |-> path, orig_name |-> orig_name, size |-> size]

RerunData(root) == [t |-> "RerunData", root |-> root]

MediaStreamChunk(data, duration, extension) ==
    [t |-> "MediaStreamChunk", data |-> data, duration |-> duration,
     extension |-> extension]

\* The file system: a function from the paths of the existing files to their
\* contents.  Path(p).stat().st_size of an existing file.
StatSize(files, p) == Len(files[p])

\* processing_utils.save_bytes_to_cache(data, file_name, cache_dir): the file
\* cache_dir/<hash of data>/file_name is written with data, and its path is
\* returned.
GRADIO_CACHE == "/cache"
HashBytes(data) == "sha-" \o data
CachePath(data, file_name) ==
    GRADIO_CACHE \o "/" \o HashBytes(data) \o "/" \o file_name

----------------------------------------------------------------------------
\* Rerun.postprocess

\* is_url with the https prefix forgotten.
is_url_http_only(input) ==
    IF input.t = "Path" THEN FALSE ELSE StartsWith(input.v, "http://")

is_url(input) ==
    IF input.t = "Path" THEN FALSE
    ELSE StartsWith(input.v, "http://") \/ StartsWith(input.v, "https://")

\* One element of the list comprehension: the URL itself, or the FileData of
\* the file, whose stat raises when the file does not exist.
root_entry(file, files) ==
    IF ~is_url(file)
    THEN IF PathStr(StrOf(file)) \in DOMAIN files
         THEN FileData(Str(StrOf(file)), Str(PathName(StrOf(file))),
                       PyInt(StatSize(files, PathStr(StrOf(file)))))
         ELSE Raise("FileNotFoundError")
    ELSE file

RECURSIVE root_entries(_, _)
\* The list comprehension, left to right: the first element that raises ends
\* it.
root_entries(value, files) ==
    IF Len(value) = 0 THEN List(<<>>)
    ELSE LET e == root_entry(Head(value), files) IN
         IF IsRaise(e) THEN e
         ELSE LET rest == root_entries(Tail(value), files) IN
              IF IsRaise(rest) THEN rest ELSE List(<<e>> \o rest.v)

\* value = list(value): a str is taken apart into its characters.
as_list_iterates(value) ==
    IF value.t = "list" THEN value.v
    ELSE IF value.t = "str"
    THEN [i \in 1..Len(value.v) |-> Str(SubSeq(value.v, i, i))]
    ELSE <<value>>

\* if not isinstance(value, list): value = [value]
as_list(value) == IF value.t = "list" THEN value.v ELSE <<value>>

\* The branch for None handing None through.
postprocess_none_returns_none(self, files, cache) ==
    [result |-> None, files |-> files, cache |-> cache]

\* The branch for None.
postprocess_none(self, files, cache) ==
    [result |-> RerunData(<<>>), files |-> files, cache |-> cache]

\* The branch for bytes without the test of self.streaming.
postprocess_bytes_never_saves(self, value, files, cache) ==
    [result |-> value, files |-> files, cache |-> cache]

\* The branch for bytes: handed through by a streaming component, saved to
\* the cache otherwise.
postprocess_bytes(self, value, files, cache) ==
    IF self.streaming
    THEN [result |-> value, files |-> files, cache |-> cache]
    ELSE LET file_path == CachePath(value.v, "rrd") IN
         [result |-> RerunData(<<FileData(Str(file_path), None, None)>>),
          files |-> [p \in DOMAIN files \cup {file_path} |->
                       IF p = file_path THEN value.v ELSE files[p]],
          cache |-> cache \cup {file_path}]

\* What postprocess returns (result) and the file system and cache it leaves.
postprocess(self, value, files, cache) ==
    IF value = None THEN postprocess_none(self, files, cache)
    ELSE IF value.t = "bytes" THEN postprocess_bytes(self, value, files, cache)
    ELSE LET root == root_entries(as_list(value), files) IN
         [result |-> IF IsRaise(root) THEN root ELSE RerunData(root.v),
          files |-> files, cache |-> cache]

\* Rerun.check_streamable
check_streamable(self) == self.streaming

----------------------------------------------------------------------------
\* Rerun.stream_output

\* stream_output testing `if not value`, which takes b"" for None.
stream_output_falsy(self, value, output_id, first_chunk) ==
    LET output_file == [path |-> output_id, is_stream |-> TRUE,
                        orig_name |-> "recording.rrd",
                        meta |-> [type |-> "gradio.FileData"]] IN
    IF value = None \/ value = Bytes("") THEN <<None, output_file>>
    ELSE <<MediaStreamChunk(value, "0.1", ".ts"), output_file>>

stream_output(self, value, output_id, first_chunk) ==
    LET output_file == [path |-> output_id, is_stream |-> TRUE,
                        orig_name |-> "recording.rrd",
                        meta |-> [type |-> "gradio.FileData"]] IN
    IF value = None THEN <<None, output_file>>
    ELSE <<MediaStreamChunk(value, "0.1", ".ts"), output_file>>

----------------------------------------------------------------------------
\* The event payloads (events.py).  A JSON object is a function from its
\* keys to its values.

\* dict.get(key, default)
Get(json, key, default) == IF key \in DOMAIN json THEN json[key] ELSE default

HasKey(json, key) == key \in DOMAIN json

\* The builtin class object `type` used as a dictionary key: the keys of a
\* JSON object are strings, and it equals none of them.
BuiltinTypeKey == "<class 'type'>"

EntitySelection(entity_path, instance_id, view_name, position) ==
    [t |-> "EntitySelection", entity_path |-> entity_path,
     instance_id |-> instance_id, view_name |-> view_name,
     position |-> position]

ViewSelection(view_id, view_name) ==
    [t |-> "ViewSelection", view_id |-> view_id, view_name |-> view_name]

ContainerSelection(container_id, container_name) ==
    [t |-> "ContainerSelection", container_id |-> container_id,
     container_name |-> container_name]

\* The kind property of the three selection classes.
kind(item) ==
    CASE item.t = "EntitySelection" -> "entity"
      [] item.t = "ViewSelection" -> "view"
      [] item.t = "ContainerSelection" -> "container"

\* The tuple taken as position[0:2], the image-plane part only.
position_tuple_xy(position) ==
    IF position = None THEN None
    ELSE IF Len(position.v) < 3 THEN Raise("IndexError")
    ELSE Tuple(<<position.v[1], position.v[2]>>)

\* (position[0], position[1], position[2]) if position is not None else None
position_tuple(position) ==
    IF position = None THEN None
    ELSE IF Len(position.v) < 3 THEN Raise("IndexError")
    ELSE Tuple(<<position.v[1], position.v[2], position.v[3]>>)

\* The final else branch: the message is formatted before the exception is
\* constructed, and formatting it reads json[type].
unhandled_kind(json) ==
    IF HasKey(json, BuiltinTypeKey) THEN Raise("NotImplementedError")
    ELSE Raise("KeyError")

selection_item_from_json(json) ==
    IF ~HasKey(json, "type") THEN Raise("KeyError")
    ELSE IF json["type"] = Str("entity")
    THEN LET position == Get(json, "position", None) IN
         IF ~HasKey(json, "entity_path") THEN Raise("KeyError")
         ELSE IF IsRaise(position_tuple(position)) THEN position_tuple(position)
         ELSE EntitySelection(json["entity_path"],
                              Get(json, "instance_id", None),
                              Get(json, "view_name", None),
                              position_tuple(position))
    ELSE IF json["type"] = Str("view")
    THEN IF ~HasKey(json, "view_id") \/ ~HasKey(json, "view_name")
         THEN Raise("KeyError")
         ELSE ViewSelection(json["view_id"], json["view_name"])
    ELSE IF json["type"] = Str("container")
    THEN IF ~HasKey(json, "container_id") \/ ~HasKey(json, "container_name")
         THEN Raise("KeyError")
         ELSE ContainerSelection(json["container_id"], json["container_name"])
    ELSE unhandled_kind(json)

RECURSIVE selection_items_skips_failures(_)
\* The comprehension with the items that fail to parse left out.
selection_items_skips_failures(data) ==
    IF Len(data) = 0 THEN List(<<>>)
    ELSE LET item == selection_item_from_json(Head(data))
             rest == selection_items_skips_failures(Tail(data)) IN
         IF IsRaise(item) THEN rest ELSE List(<<item>> \o rest.v)

RECURSIVE selection_items(_)
\* [_selection_item_from_json(item) for item in data]
selection_items(data) ==
    IF Len(data) = 0 THEN List(<<>>)
    ELSE LET item == selection_item_from_json(Head(data)) IN
         IF IsRaise(item) THEN item
         ELSE LET rest == selection_items(Tail(data)) IN
              IF IsRaise(rest) THEN rest ELSE List(<<item>> \o rest.v)

\* SelectionChange.__init__: the object exists only when every item parsed.
SelectionChange(target, data) ==
    LET items == selection_items(data) IN
    IF IsRaise(items) THEN items
    ELSE [t |-> "SelectionChange", target |-> target, items |-> items.v]

\* TimeUpdate.__init__
TimeUpdate(target, data) ==
    [t |-> "TimeUpdate", target |-> target, time |-> data]

\* TimelineChange.__init__
TimelineChange(target, data) ==
    IF ~HasKey(data, "timeline") THEN Raise("KeyError")
    ELSE IF ~HasKey(data, "time") THEN Raise("KeyError")
    ELSE [t |-> "TimelineChange", target |-> target,
          timeline |-> data["timeline"], time |-> data["time"]]

----------------------------------------------------------------------------
\* The copy of the selection parser kept in rerun.py.

rerun_unhandled_kind(json) ==
    IF HasKey(json, BuiltinTypeKey) THEN Raise("NotImplementedError")
    ELSE Raise("KeyError")

rerun_selection_item_from_json(json) ==
    IF ~HasKey(json, "type") THEN Raise("KeyError")
    ELSE IF json["type"] = Str("entity")
    THEN LET position == Get(json, "position", None) IN
         IF ~HasKey(json, "entity_path") THEN Raise("KeyError")
         ELSE IF IsRaise(position_tuple(position)) THEN position_tuple(position)
         ELSE EntitySelection(json["entity_path"],
                              Get(json, "instance_id", None),
                              Get(json, "view_name", None),
                              position_tuple(position))
    ELSE IF json["type"] = Str("view")
    THEN IF ~HasKey(json, "view_id") \/ ~HasKey(json, "view_name")
         THEN Raise("KeyError")
         ELSE ViewSelection(json["view_id"], json["view_name"])
    ELSE IF json["type"] = Str("container")
    THEN IF ~HasKey(json, "container_id") \/ ~HasKey(json, "container_name")
         THEN Raise("KeyError")
         ELSE ContainerSelection(json["container_id"], json["container_name"])
    ELSE rerun_unhandled_kind(json)

RECURSIVE rerun_selection_items(_)
rerun_selection_items(data) ==
    IF Len(data) = 0 THEN List(<<>>)
    ELSE LET item == rerun_selection_item_from_json(Head(data)) IN
         IF IsRaise(item) THEN item
         ELSE LET rest == rerun_selection_items(Tail(data)) IN
              IF IsRaise(rest) THEN rest ELSE List(<<item>> \o rest.v)

\* SelectionItems.__init__
SelectionItems(target, data) ==
    LET items == rerun_selection_items(data) IN
    IF IsRaise(items) THEN items
    ELSE [t |-> "SelectionItems", target |-> target, items |-> items.v]

----------------------------------------------------------------------------
\* The demo's callbacks (app.py).

track_current_time(evt) == evt.time

\* The pair returned in the other order.
track_current_timeline_and_time_swapped(evt) == Tuple(<<evt.time, evt.timeline>>)

track_current_timeline_and_time(evt) == Tuple(<<evt.timeline, evt.time>>)

----------------------------------------------------------------------------
\* The demo's wiring (app.py, `with gr.Blocks() as demo`).

\* Rerun.EVENTS
EVENTS == {"selection_change"}

\* The events a component of the demo has a listener method for: those of its
\* class's EVENTS list.
EventsOf(component) ==
    CASE component = "viewer" -> EVENTS
      [] component = "stream_blur" -> {"click"}

\* The listener registrations on the Streaming tab, in program order.
DemoListeners ==
    << [component |-> "stream_blur", event |-> "click",
        fn |-> "streaming_repeated_blur"],
       [component |-> "viewer", event |-> "selection_change",
        fn |-> "register_keypoint"],
       [component |-> "viewer", event |-> "time_update",
        fn |-> "track_current_time"],
       [component |-> "viewer", event |-> "timeline_change",
        fn |-> "track_current_timeline_and_time"] >>

----------------------------------------------------------------------------
\* Inputs.

\* Files that may exist when the component is used, with their contents.
FileContents ==
    [p \in {"d/a.rrd", "d/b.rrd", "http:/h/a.rrd"} |->
        CASE p = "d/a.rrd" -> "RRF2"
          [] p = "d/b.rrd" -> "RRF2xy"
          [] p = "http:/h/a.rrd" -> "R"]

AlwaysThere == {"d/a.rrd"}

StrPool ==
    {"http://h/a.rrd", "https://h/b.rrd", "d/a.rrd", "d//b.rrd", "httpx"}

PathPool == {"http://h/a.rrd", "d/a.rrd", "./d/b.rrd"}

SourcePool == {Str(s) : s \in StrPool} \cup {Path(s) : s \in PathPool}

BytesPool == {Bytes("RRF2a")}

ChunkPool == {None, Bytes(""), Bytes("RRF2a")}

RECURSIVE SeqsUpTo(_, _)
\* The sequences over S of length at most n.
SeqsUpTo(S, n) ==
    IF n = 0 THEN {<<>>}
    ELSE LET shorter == SeqsUpTo(S, n - 1) IN
         shorter \cup {<<x>> \o q : x \in S, q \in {r \in shorter : Len(r) = n - 1}}

PostprocessInputs ==
    {None} \cup BytesPool \cup SourcePool
    \cup {List(q) : q \in SeqsUpTo(SourcePool, MaxFiles)}

OutputIds == {"out-1", "out-2"}

Pos2 == List(<<PyInt(4), PyInt(5)>>)
Pos3 == List(<<PyInt(1), PyInt(2), PyInt(3)>>)
Pos4 == List(<<PyInt(6), PyInt(7), PyInt(8), PyInt(9)>>)

\* A JSON object given by its key/value pairs.
Obj(pairs) == [k \in {q[1] : q \in pairs} |-> (CHOOSE q \in pairs : q[1] = k)[2]]

ItemPool ==
    { Obj({<<"type", Str("entity")>>, <<"entity_path", Str("image/original")>>}),
      Obj({<<"type", Str("entity")>>, <<"entity_path", Str("image/blurred")>>,
           <<"instance_id", PyInt(7)>>, <<"view_name", Str("2D")>>,
           <<"position", Pos3>>}),
      Obj({<<"type", Str("entity")>>, <<"entity_path", Str("image/original")>>,
           <<"position", None>>}),
      Obj({<<"type", Str("entity")>>, <<"entity_path", Str("image/original")>>,
           <<"view_name", Str("2D")>>, <<"position", Pos2>>}),
      Obj({<<"type", Str("entity")>>, <<"entity_path", Str("image/original")>>,
           <<"instance_id", PyInt(0)>>, <<"position", Pos4>>}),
      Obj({<<"type", Str("entity")>>, <<"position", Pos3>>}),
      Obj({<<"type", Str("view")>>, <<"view_id", Str("v1")>>,
           <<"view_name", Str("2D")>>}),
      Obj({<<"type", Str("view")>>, <<"view_id", Str("v1")>>}),
      Obj({<<"type", Str("view")>>, <<"view_name", Str("2D")>>}),
      Obj({<<"type", Str("container")>>, <<"container_id", Str("c1")>>,
           <<"container_name", Str("Grid")>>}),
      Obj({<<"type", Str("container")>>, <<"container_id", Str("c1")>>}),
      Obj({<<"type", Str("container")>>, <<"container_name", Str("Grid")>>}),
      Obj({<<"type", Str("app")>>}),
      Obj({<<"type", PyInt(3)>>, <<"entity_path", Str("image/original")>>}),
      Obj({<<"entity_path", Str("image/original")>>}) }

SelectionInputs == SeqsUpTo(ItemPool, MaxItems)

TimeValues == {PyInt(0), PyInt(-2), PyFloat(25), None, Str("12")}

TimelineValues == {Str("iteration"), Str("log_time"), None}

TimelineInputs ==
    {Obj({<<"timeline", tl>>, <<"time", tm>>}) : tl \in TimelineValues, tm \in TimeValues}
    \cup {Obj({<<"timeline", tl>>}) : tl \in TimelineValues}
    \cup {Obj({<<"time", tm>>}) : tm \in TimeValues}
    \cup {Obj({})}

----------------------------------------------------------------------------
\* The state machine.

VARIABLES
    self,     \* the Rerun component: its constructor's streaming flag
    files,    \* the file system: path -> contents
    cache,    \* the paths saved under GRADIO_CACHE
    demo,     \* the construction of the demo: next listener, listeners, error
    last,     \* the call whose result the host has not consumed yet
    keypoints_per_session_per_sequence_index,
              \* the demo's global: session -> sequence index -> keypoints
    loaded,   \* the sessions whose load event has been dispatched
    blur      \* the streaming_repeated_blur generator the host is iterating

vars == <<self, files, cache, demo, last,
          keypoints_per_session_per_sequence_index, loaded, blur>>

\* The state of the component and of the demo's construction.
componentVars == <<self, files, cache, demo>>

\* The state of the running demo.
sessionVars == <<keypoints_per_session_per_sequence_index, loaded>>

\* A dict with no keys.
EmptyDict == [k \in {} |-> None]

\* No generator is being iterated.
NoBlur == [pc |-> "none"]

Idle == [op |-> "idle"]

Init ==
    /\ self \in [streaming : BOOLEAN]
    /\ \E S \in SUBSET (DOMAIN FileContents \ AlwaysThere) :
          files = [p \in S \cup AlwaysThere |-> FileContents[p]]
    /\ cache = {}
    /\ demo = [pc |-> 1, listeners |-> {}, attempted |-> {}, error |-> None]
    /\ last = Idle
    /\ keypoints_per_session_per_sequence_index = EmptyDict
    /\ loaded = {}
    /\ blur = NoBlur

\* The host calls postprocess on a value a callback returned.
Postprocess ==
    /\ last = Idle
    /\ \E value \in PostprocessInputs :
        LET r == postprocess(self, value, files, cache) IN
        /\ last' = [op |-> "postprocess", value |-> value, result |-> r.result]
        /\ files' = r.files
        /\ cache' = r.cache
        /\ UNCHANGED <<self, demo, sessionVars, blur>>

\* The host passes one yielded value of a streaming callback to stream_output.
StreamOutput ==
    /\ last = Idle
    /\ \E value \in ChunkPool, output_id \in OutputIds, first_chunk \in BOOLEAN :
        /\ last' = [op |-> "stream_output", value |-> value,
                    output_id |-> output_id, first_chunk |-> first_chunk,
                    result |-> stream_output(self, value, output_id, first_chunk)]
        /\ UNCHANGED <<componentVars, sessionVars, blur>>

\* The host constructs the payload of a selection_change event (events.py).
NewSelectionChange ==
    /\ last = Idle
    /\ \E data \in SelectionInputs :
        /\ last' = [op |-> "SelectionChange", data |-> data,
                    result |-> SelectionChange("viewer", data)]
        /\ UNCHANGED <<componentVars, sessionVars, blur>>

\* The same with the class kept in rerun.py.
NewSelectionItems ==
    /\ last = Idle
    /\ \E data \in SelectionInputs :
        /\ last' = [op |-> "SelectionItems", data |-> data,
                    result |-> SelectionItems("viewer", data)]
        /\ UNCHANGED <<componentVars, sessionVars, blur>>

\* A time_update event: the payload is constructed and handed to the callback.
OnTimeUpdate ==
    /\ last = Idle
    /\ \E data \in TimeValues :
        LET evt == TimeUpdate("viewer", data) IN
        /\ last' = [op |-> "track_current_time", data |-> data, evt |-> evt,
                    result |-> track_current_time(evt)]
        /\ UNCHANGED <<componentVars, sessionVars, blur>>

\* A timeline_change event: the callback runs only if the payload could be
\* constructed.
OnTimelineChange ==
    /\ last = Idle
    /\ \E data \in TimelineInputs :
        LET evt == TimelineChange("viewer", data) IN
        /\ last' = [op |-> "track_current_timeline_and_time", data |-> data,
                    evt |-> evt,
                    result |-> IF IsRaise(evt) THEN evt
                               ELSE track_current_timeline_and_time(evt)]
        /\ UNCHANGED <<componentVars, sessionVars, blur>>

\* One listener registration of the demo: component.event(fn, ...) is an
\* attribute lookup on the component, which raises when the component has no
\* such event; the script ends there.
BuildDemoStep ==
    /\ demo.error = None
    /\ demo.pc <= Len(DemoListeners)
    /\ LET l == DemoListeners[demo.pc] IN
       demo' = IF l.event \in EventsOf(l.component)
               THEN [demo EXCEPT !.pc = @ + 1, !.listeners = @ \cup {l},
                                 !.attempted = @ \cup {l}]
               ELSE [demo EXCEPT !.attempted = @ \cup {l},
                                 !.error = Raise("AttributeError")]
    /\ UNCHANGED <<self, files, cache, last, sessionVars, blur>>

\* The host takes the result of the call (or its exception) and the request
\* ends.
Consume ==
    /\ last # Idle
    /\ last' = Idle
    /\ UNCHANGED <<componentVars, sessionVars, blur>>

Next ==
    \/ Postprocess
    \/ StreamOutput
    \/ NewSelectionChange
    \/ NewSelectionItems
    \/ OnTimeUpdate
    \/ OnTimelineChange
    \/ BuildDemoStep
    \/ Consume

Spec == Init /\ [][Next]_vars

----------------------------------------------------------------------------
\* The demo's per-session keypoints (app.py).

MaxKeypoints == 2
MaxSelected == 2

\* d[k] = v, and del d[k]
DictSet(d, k, v) == [x \in DOMAIN d \cup {k} |-> IF x = k THEN v ELSE d[x]]
DictDel(d, k) == [x \in DOMAIN d \ {k} |-> d[x]]

\* math.floor of a float
math_floor(x) == x.tenths \div 10

\* get_recording: a new recording stream of the application for the id.
get_recording(recording_id) ==
    [t |-> "RecordingStream", application_id |-> "rerun_example_gradio",
     recording_id |-> recording_id]

\* stream.read() of the binary stream of rec after the calls in logged.
stream_read(rec, logged) == [t |-> "bytes", recording |-> rec, logged |-> logged]

\* get_keypoints_for_user_at_sequence_index: the dictionary with the list of
\* the sequence index in place, or the KeyError of the missing session.
get_keypoints_for_user_at_sequence_index(kps, session, sequence) ==
    IF ~HasKey(kps, session) THEN Raise("KeyError")
    ELSE LET per_sequence == kps[session] IN
         IF ~HasKey(per_sequence, sequence)
         THEN [t |-> "ok", kps |-> DictSet(kps, session,
                                            DictSet(per_sequence, sequence, <<>>))]
         ELSE [t |-> "ok", kps |-> kps]

\* initialize_instance with the global dictionary assigned anew.
initialize_instance_resets_all(kps, session) == DictSet(EmptyDict, session, EmptyDict)

initialize_instance(kps, session) == DictSet(kps, session, EmptyDict)

cleanup_instance(kps, session) ==
    IF HasKey(kps, session) THEN DictDel(kps, session) ELSE kps

\* The guards without the test of the timeline.
passes_guards_any_timeline(active_recording_id, current_timeline, evt) ==
    /\ active_recording_id # Str("")
    /\ Len(evt.items) = 1
    /\ ~(kind(evt.items[1]) # "entity" \/ evt.items[1].position = None)

\* The four early returns of register_keypoint, negated.
passes_guards(active_recording_id, current_timeline, evt) ==
    /\ active_recording_id # Str("")
    /\ current_timeline = Str("iteration")
    /\ Len(evt.items) = 1
    /\ ~(kind(evt.items[1]) # "entity" \/ evt.items[1].position = None)

\* item.position[0:2]
position_xy(position) == Tuple(SubSeq(position.v, 1, 2))

\* register_keypoint run to its end by the host: the dictionary it leaves,
\* the chunks it yielded and the exception that ended it, if any.
register_keypoint(kps, active_recording_id, current_timeline, current_time, session, evt) ==
    IF ~passes_guards(active_recording_id, current_timeline, evt)
    THEN [kps |-> kps, yields |-> <<>>, exc |-> None]
    ELSE LET item == evt.items[1]
             rec == get_recording(active_recording_id)
             index == math_floor(current_time)
             got == get_keypoints_for_user_at_sequence_index(kps, session, index)
         IN
         IF IsRaise(got) THEN [kps |-> kps, yields |-> <<>>, exc |-> got]
         ELSE LET keypoints == Append(got.kps[session][index],
                                      position_xy(item.position))
                  entry == [time |-> <<"iteration", index>>,
                            entity |-> item.entity_path.v \o "/keypoint",
                            points |-> keypoints, radii |-> 2]
              IN
              [kps |-> DictSet(got.kps, session,
                               DictSet(got.kps[session], index, keypoints)),
               yields |-> <<stream_read(rec, <<entry>>)>>,
               exc |-> None]

\* Inputs of the demo's callbacks.

Sessions == {"s1", "s2"}

UUID(u) == [t |-> "UUID", v |-> u]

RecordingIds == {Str(""), UUID("6f1c")}

SessionTimelines == {Str("iteration"), Str("log_time")}

SessionTimes == {PyFloat(25), PyFloat(-15), PyFloat(-20)}

DemoItemPool ==
    { Obj({<<"type", Str("entity")>>, <<"entity_path", Str("image/original")>>}),
      Obj({<<"type", Str("entity")>>, <<"entity_path", Str("image/blurred")>>,
           <<"instance_id", PyInt(7)>>, <<"view_name", Str("2D")>>,
           <<"position", Pos3>>}),
      Obj({<<"type", Str("view")>>, <<"view_id", Str("v1")>>,
           <<"view_name", Str("2D")>>}) }

\* The selection_change payloads the host could construct.
SelectionEvents ==
    {SelectionChange("viewer", data) : data \in SeqsUpTo(DemoItemPool, MaxSelected)}

RECURSIVE SumLens(_, _)
SumLens(per_sequence, keys) ==
    IF keys = {} THEN 0
    ELSE LET k == CHOOSE k \in keys : TRUE IN
         Len(per_sequence[k]) + SumLens(per_sequence, keys \ {k})

\* The number of keypoints a session holds.
TotalKeypoints(kps, session) ==
    IF HasKey(kps, session) THEN SumLens(kps[session], DOMAIN kps[session]) ELSE 0

\* The demo as it runs: the viewer of the demo is a streaming component.
SessionInit ==
    /\ self = [streaming |-> TRUE]
    /\ files = [p \in AlwaysThere |-> FileContents[p]]
    /\ cache = {}
    /\ demo = [pc |-> 1, listeners |-> {}, attempted |-> {}, error |-> None]
    /\ last = Idle
    /\ keypoints_per_session_per_sequence_index = EmptyDict
    /\ loaded = {}
    /\ blur = NoBlur

\* The load event of a session.
InitializeInstance ==
    /\ last = Idle
    /\ \E session \in Sessions :
        /\ keypoints_per_session_per_sequence_index' =
              initialize_instance(keypoints_per_session_per_sequence_index, session)
        /\ loaded' = loaded \cup {session}
        /\ last' = [op |-> "initialize_instance", session |-> session]
    /\ UNCHANGED <<componentVars, blur>>

\* The close event of a session.
CleanupInstance ==
    /\ last = Idle
    /\ \E session \in Sessions :
        /\ keypoints_per_session_per_sequence_index' =
              cleanup_instance(keypoints_per_session_per_sequence_index, session)
        /\ last' = [op |-> "cleanup_instance", session |-> session]
    /\ UNCHANGED <<componentVars, loaded, blur>>

\* A selection_change event of a session: the host hands the session's
\* state and the payload to register_keypoint and iterates it to its end.
RegisterKeypoint ==
    /\ last = Idle
    /\ \E active_recording_id \in RecordingIds,
          current_timeline \in SessionTimelines,
          current_time \in SessionTimes,
          session \in Sessions,
          evt \in {e \in SelectionEvents : ~IsRaise(e)} :
        LET r == register_keypoint(keypoints_per_session_per_sequence_index,
                                   active_recording_id, current_timeline,
                                   current_time, session, evt) IN
        /\ TotalKeypoints(r.kps, session) <= MaxKeypoints
        /\ keypoints_per_session_per_sequence_index' = r.kps
        /\ last' = [op |-> "register_keypoint",
                    active_recording_id |-> active_recording_id,
                    current_timeline |-> current_timeline,
                    current_time |-> current_time,
                    session |-> session, evt |-> evt,
                    yields |-> r.yields, exc |-> r.exc]
    /\ UNCHANGED <<componentVars, loaded, blur>>

SessionNext ==
    \/ InitializeInstance
    \/ CleanupInstance
    \/ RegisterKeypoint
    \/ Consume

SessionSpec == SessionInit /\ [][SessionNext]_vars

----------------------------------------------------------------------------
\* streaming_repeated_blur (app.py), a generator the host iterates: each step
\* runs it from one yield to the next.

\* range(100)
BlurIterations == 100

Image(id) == [t |-> "ndarray", id |-> id, blurs |-> 0]

\* cv2.GaussianBlur(blur, (5, 5), 0)
GaussianBlur(img) == [img EXCEPT !.blurs = @ + 1]

ImagePool == {None, Image("a"), Image("b")}

\* The first step with the test of img made after the original was logged.
blur_start_checks_late(recording_id, img) ==
    [pc |-> "raised", rec |-> get_recording(recording_id), img |-> img,
     i |-> 0, blur |-> img, blueprint |-> TRUE,
     logged |-> <<[time |-> <<"iteration", 0>>, entity |-> "image/original",
                   image |-> img]>>,
     yields |-> 0, exc |-> Raise("gr.Error")]

\* The first step: the recording and its binary stream are made, then img is
\* tested, and only then the blueprint is sent and the original logged.
blur_start(recording_id, img) ==
    IF img = None
    THEN [pc |-> "raised", rec |-> get_recording(recording_id), img |-> img,
          i |-> 0, blur |-> img, blueprint |-> FALSE, logged |-> <<>>,
          yields |-> 0, exc |-> Raise("gr.Error")]
    ELSE [pc |-> "loop", rec |-> get_recording(recording_id), img |-> img,
          i |-> 0, blur |-> img, blueprint |-> TRUE,
          logged |-> <<[time |-> <<"iteration", 0>>, entity |-> "image/original",
                        image |-> img]>>,
          yields |-> 1, exc |-> None]

\* One pass of the loop, up to its yield.
blur_iterate(b) ==
    [b EXCEPT !.blur = GaussianBlur(b.blur),
              !.logged = Append(b.logged,
                                [time |-> <<"iteration", b.i>>,
                                 entity |-> "image/blurred",
                                 image |-> GaussianBlur(b.blur)]),
              !.i = b.i + 1,
              !.yields = b.yields + 1]

\* After the loop: stream.flush() and the last yield.
blur_flush(b) == [b EXCEPT !.pc = "flushed", !.yields = b.yields + 1]

\* The click on "Stream Repeated Blur": the host takes the first chunk.
BlurStart ==
    /\ blur = NoBlur
    /\ \E recording_id \in RecordingIds, img \in ImagePool :
          blur' = blur_start(recording_id, img)
    /\ UNCHANGED <<componentVars, sessionVars, last>>

BlurIterate ==
    /\ blur.pc = "loop"
    /\ blur.i < BlurIterations
    /\ blur' = blur_iterate(blur)
    /\ UNCHANGED <<componentVars, sessionVars, last>>

BlurFlush ==
    /\ blur.pc = "loop"
    /\ blur.i = BlurIterations
    /\ blur' = blur_flush(blur)
    /\ UNCHANGED <<componentVars, sessionVars, last>>

\* The generator returns.
BlurEnd ==
    /\ blur.pc = "flushed"
    /\ blur' = [blur EXCEPT !.pc = "done"]
    /\ UNCHANGED <<componentVars, sessionVars, last>>

BlurNext ==
    \/ BlurStart
    \/ BlurIterate
    \/ BlurFlush
    \/ BlurEnd

BlurSpec == SessionInit /\ [][BlurNext]_vars

----------------------------------------------------------------------------
\* Properties.

RecognizedKinds == {Str("entity"), Str("view"), Str("container")}

IsSelectionCall == last.op \in {"SelectionChange", "SelectionItems"}

\* C1: parsing a selection item whose "type" is none of "entity", "view",
\* "container" raises NotImplementedError, and no other kind of error.  (The
\* first item of the event's data is parsed first, so its error is the
\* constructor's.)
C1_UnknownKindRaisesNotImplemented ==
    (/\ IsSelectionCall
     /\ Len(last.data) >= 1
     /\ HasKey(last.data[1], "type")
     /\ last.data[1]["type"] \notin RecognizedKinds)
    => last.result = Raise("NotImplementedError")

\* C2: every listener the demo registers on the viewer names an event of the
\* component's EVENTS list, which holds selection_change, time_update and
\* timeline_change.
C2_ViewerListenersAreDeclaredEvents ==
    \A l \in demo.attempted :
        l.component = "viewer" =>
            /\ l.event \in {"selection_change", "time_update", "timeline_change"}
            /\ l.event \in EVENTS

IsListCall == last.op = "postprocess" /\ last.value.t = "list"

\* A str that starts with "http://" or "https://".
C3_IsUrlString(x) ==
    /\ x.t = "str"
    /\ \/ (Len(x.v) >= 7 /\ SubSeq(x.v, 1, 7) = "http://")
       \/ (Len(x.v) >= 8 /\ SubSeq(x.v, 1, 8) = "https://")

RECURSIVE C3_AfterLastSlash(_)
\* The characters after the last "/" of s.
C3_AfterLastSlash(s) ==
    IF Len(s) = 0 \/ SubSeq(s, Len(s), Len(s)) = "/" THEN ""
    ELSE C3_AfterLastSlash(SubSeq(s, 1, Len(s) - 1)) \o SubSeq(s, Len(s), Len(s))

\* Entry i of the returned root is what the claim says of input i.
C3_EntryIsAsClaimed(x, entry) ==
    IF C3_IsUrlString(x) THEN entry = x
    ELSE /\ entry.t = "FileData"
         /\ entry.path = Str(x.v)
         /\ entry.orig_name = Str(C3_AfterLastSlash(x.v))

C3_RootIsAsClaimed ==
    /\ last.result.t = "RerunData"
    /\ Len(last.result.root) = Len(last.value.v)
    /\ \A i \in 1..Len(last.value.v) :
          C3_EntryIsAsClaimed(last.value.v[i], last.result.root[i])

\* Every entry of the list that is not a URL string names an existing file.
C3_FilesExist ==
    \A i \in 1..Len(last.value.v) :
        C3_IsUrlString(last.value.v[i])
        \/ PathStr(last.value.v[i].v) \in DOMAIN files

\* C3 as written: for every list input postprocess returns a RerunData whose
\* root has the input's length and order, entry i being input i itself
\* exactly when it is a str starting with "http://" or "https://", and
\* otherwise a FileData with path = str(input i) and orig_name = the final
\* path component.
C3_ListGivesRootOfSameShape == IsListCall => C3_RootIsAsClaimed

\* C3 amended: the same for every list input whose non-URL entries all name
\* existing files; when one of them does not exist postprocess raises
\* FileNotFoundError and returns nothing.
C3_ListOfExistingFilesGivesRoot ==
    IsListCall =>
        IF C3_FilesExist THEN C3_RootIsAsClaimed
        ELSE last.result = Raise("FileNotFoundError")

\* A list of an https URL and a Path whose text began with http:// has been
\* post-processed.
C3_Witness ==
    /\ IsListCall
    /\ last.value.v = <<Str("https://h/b.rrd"), Path("http://h/a.rrd")>>
    /\ last.result.t = "RerunData"
    /\ last.result.root[2].t = "FileData"

IsBytesCall == last.op = "postprocess" /\ last.value.t = "bytes"

\* C4: for a bytes input postprocess returns the very same bytes when the
\* component was constructed with streaming=True; with streaming=False it
\* saves the bytes to the cache and returns a RerunData with exactly one
\* FileData entry pointing at the saved file; a non-streaming component
\* never returns raw bytes.
C4_BytesStreamedOrCached ==
    /\ IsBytesCall =>
          IF check_streamable(self) THEN last.result = last.value
          ELSE /\ last.result.t = "RerunData"
               /\ Len(last.result.root) = 1
               /\ last.result.root[1].t = "FileData"
               /\ last.result.root[1].path.t = "str"
               /\ last.result.root[1].path.v \in cache
               /\ last.result.root[1].path.v \in DOMAIN files
               /\ files[last.result.root[1].path.v] = last.value.v
    /\ (last.op = "postprocess" /\ last.result.t = "bytes") => self.streaming

\* A non-streaming component has post-processed bytes.
C4_Witness == IsBytesCall /\ ~self.streaming /\ cache # {}

\* A streaming component has post-processed bytes.
C4_WitnessStreaming == IsBytesCall /\ self.streaming

\* C5: postprocess(None) returns a RerunData with an empty root whatever the
\* streaming flag, and leaves the cache and the file system as they were.
C5_NoneGivesEmptyRoot ==
    [][(last'.op = "postprocess" /\ last'.value = None)
       => (/\ last'.result = RerunData(<<>>)
           /\ cache' = cache
           /\ files' = files)]_vars

\* postprocess(None) has been called on a non-streaming component that has
\* files in its cache.
C5_Witness ==
    /\ last.op = "postprocess"
    /\ last.value = None
    /\ ~self.streaming
    /\ cache # {}

\* C9: stream_output returns the descriptor with path = output_id, is_stream
\* = true and orig_name = "recording.rrd"; the chunk is None exactly when
\* value is None and otherwise holds value unchanged; nothing else (neither
\* first_chunk nor an earlier call) has a part in the result.
C9_StreamOutputResult ==
    last.op = "stream_output" =>
        /\ last.result[2] = [path |-> last.output_id, is_stream |-> TRUE,
                             orig_name |-> "recording.rrd",
                             meta |-> [type |-> "gradio.FileData"]]
        /\ (last.result[1] = None) <=> (last.value = None)
        /\ last.value # None =>
              last.result[1] = [t |-> "MediaStreamChunk", data |-> last.value,
                                duration |-> "0.1", extension |-> ".ts"]

\* stream_output has been given empty bytes as a later chunk, after the cache
\* was filled by an earlier call.
C9_Witness ==
    /\ last.op = "stream_output"
    /\ last.value = Bytes("")
    /\ ~last.first_chunk
    /\ cache # {}

\* C10: postprocess of a single str or Path v returns what postprocess of the
\* one-element list [v] returns.
C10_SingleIsOneElementList ==
    (last.op = "postprocess" /\ last.value.t \in {"str", "Path"}) =>
        last.result = postprocess(self, List(<<last.value>>), files, cache).result

\* A single existing file, given as a str, has been post-processed.
C10_Witness ==
    /\ last.op = "postprocess"
    /\ last.value = Str("d//b.rrd")
    /\ last.result.t = "RerunData"

\* The result of the constructor against parses, the parses of the elements
\* of the event's data, each on its own.
C6_ItemsAreTheParses(parses) ==
    IF \E i \in 1..Len(last.data) : IsRaise(parses[i])
    THEN IsRaise(last.result)
    ELSE /\ ~IsRaise(last.result)
         /\ Len(last.result.items) = Len(last.data)
         /\ last.result.items = parses

\* C6: SelectionChange.items (and SelectionItems.items in rerun.py) has the
\* length and order of the event's data, item i being the parse of data[i];
\* if any element fails to parse, the construction fails as a whole and no
\* partial item list exists.
C6_ItemsMirrorData ==
    /\ last.op = "SelectionChange" =>
          C6_ItemsAreTheParses(
              [i \in 1..Len(last.data) |-> selection_item_from_json(last.data[i])])
    /\ last.op = "SelectionItems" =>
          C6_ItemsAreTheParses(
              [i \in 1..Len(last.data) |-> rerun_selection_item_from_json(last.data[i])])

\* A selection of two items that parse has been constructed.
C6_Witness ==
    /\ last.op = "SelectionChange"
    /\ Len(last.data) = 2
    /\ ~IsRaise(last.result)
    /\ last.result.items[1] # last.result.items[2]

\* A selection whose second item fails to parse, after a first that parses,
\* has been refused.
C6_WitnessFailure ==
    /\ last.op = "SelectionChange"
    /\ Len(last.data) = 2
    /\ ~IsRaise(selection_item_from_json(last.data[1]))
    /\ IsRaise(last.result)

\* What C7 says of the parse of one item of a recognized type.
C7_ItemIsAsClaimed(json, out) ==
    CASE json["type"] = Str("entity") ->
           IF ~HasKey(json, "entity_path") THEN out = Raise("KeyError")
           ELSE IF ~IsRaise(out)
           THEN /\ kind(out) = json["type"].v
                /\ out.entity_path = json["entity_path"]
                /\ out.instance_id =
                     (IF HasKey(json, "instance_id") THEN json["instance_id"] ELSE None)
                /\ out.view_name =
                     (IF HasKey(json, "view_name") THEN json["view_name"] ELSE None)
                /\ ~HasKey(json, "position") => out.position = None
                /\ (HasKey(json, "position") /\ json["position"] = None) =>
                     out.position = None
                /\ (HasKey(json, "position") /\ json["position"] # None) =>
                     out.position = Tuple(<<json["position"].v[1],
                                            json["position"].v[2],
                                            json["position"].v[3]>>)
           ELSE \* only a position of fewer than three components is refused
                /\ HasKey(json, "position")
                /\ json["position"] # None
                /\ Len(json["position"].v) < 3
      [] json["type"] = Str("view") ->
           IF HasKey(json, "view_id") /\ HasKey(json, "view_name")
           THEN /\ ~IsRaise(out)
                /\ kind(out) = json["type"].v
                /\ out.view_id = json["view_id"]
                /\ out.view_name = json["view_name"]
           ELSE out = Raise("KeyError")
      [] json["type"] = Str("container") ->
           IF HasKey(json, "container_id") /\ HasKey(json, "container_name")
           THEN /\ ~IsRaise(out)
                /\ kind(out) = json["type"].v
                /\ out.container_id = json["container_id"]
                /\ out.container_name = json["container_name"]
           ELSE out = Raise("KeyError")

C7_IsRecognized(json) == HasKey(json, "type") /\ json["type"] \in RecognizedKinds

C8_PayloadsAndCallbacks ==
    /\ last.op = "track_current_timeline_and_time" =>
          IF HasKey(last.data, "timeline") /\ HasKey(last.data, "time")
          THEN /\ ~IsRaise(last.evt)
               /\ last.evt.timeline = last.data["timeline"]
               /\ last.evt.time = last.data["time"]
               /\ last.result = Tuple(<<last.data["timeline"], last.data["time"]>>)
          ELSE IsRaise(last.evt) /\ IsRaise(last.result)
    /\ last.op = "track_current_time" =>
          /\ last.evt.time = last.data
          /\ last.result = last.data

\* A timeline change to a timeline and a time that differ has been tracked.
C8_Witness ==
    /\ last.op = "track_current_timeline_and_time"
    /\ ~IsRaise(last.result)
    /\ last.data["timeline"] = Str("iteration")
    /\ last.data["time"] = PyFloat(25)

IsRegisterCall == last.op = "register_keypoint"

\* The guards the claim names: a recording id that is not the empty string,
\* the timeline "iteration", exactly one selected item, an entity that has a
\* position.
C11_GuardsHold ==
    /\ last.active_recording_id # Str("")
    /\ last.current_timeline = Str("iteration")
    /\ Len(last.evt.items) = 1
    /\ last.evt.items[1].t = "EntitySelection"
    /\ last.evt.items[1].position # None

\* C11: register_keypoint records a keypoint and yields a chunk only when all
\* guards hold; in every other case it yields nothing and leaves
\* keypoints_per_session_per_sequence_index unchanged.
C11_RecordsOnlyPastTheGuards ==
    [][IsRegisterCall' =>
         \/ C11_GuardsHold'
         \/ /\ last'.yields = <<>>
            /\ keypoints_per_session_per_sequence_index' =
                  keypoints_per_session_per_sequence_index]_vars

\* A call past the guards has recorded a second keypoint and yielded a chunk.
C11_Witness ==
    /\ IsRegisterCall
    /\ Len(last.yields) = 1
    /\ TotalKeypoints(keypoints_per_session_per_sequence_index, last.session) = 2

\* C12: keypoints are kept per session: a call of initialize_instance,
\* cleanup_instance or register_keypoint for one session neither adds, nor
\* removes, nor alters the entry of another session.
C12_OtherSessionsUntouched ==
    [][last'.op \in {"initialize_instance", "cleanup_instance", "register_keypoint"} =>
         \A b \in Sessions \ {last'.session} :
             /\ HasKey(keypoints_per_session_per_sequence_index', b)
                  <=> HasKey(keypoints_per_session_per_sequence_index, b)
             /\ HasKey(keypoints_per_session_per_sequence_index, b) =>
                  keypoints_per_session_per_sequence_index'[b] =
                      keypoints_per_session_per_sequence_index[b]]_vars

\* A session has been initialized anew while the other one holds keypoints.
C12_Witness ==
    /\ last.op = "initialize_instance"
    /\ \E b \in Sessions \ {last.session} :
          TotalKeypoints(keypoints_per_session_per_sequence_index, b) > 0

\* C13: in every interleaving of a session's load, close and selection_change
\* events (the session's load has been dispatched), a register_keypoint call
\* that passes its guards finds the session's entry: the lookup does not
\* fail on a missing session key.
C13_LookupFindsTheSession ==
    (IsRegisterCall /\ C11_GuardsHold /\ last.session \in loaded)
    => last.exc # Raise("KeyError")

\* current_time rounded toward 0.
C14_TowardZero(x) ==
    IF x.tenths >= 0 THEN x.tenths \div 10 ELSE -((-x.tenths) \div 10)

\* C14: the sequence index under which register_keypoint stores and logs a
\* keypoint is current_time rounded toward 0, whatever current_time is.
C14_IndexIsTimeTowardZero ==
    (IsRegisterCall /\ last.yields # <<>>) =>
        /\ last.yields[1].logged[1].time = <<"iteration", C14_TowardZero(last.current_time)>>
        /\ HasKey(keypoints_per_session_per_sequence_index[last.session],
                  C14_TowardZero(last.current_time))

\* C15: run with no image, streaming_repeated_blur raises a gr.Error before
\* it yields any chunk and before it logs (or sends) anything to the
\* recording.
C15_NoImageRaisesFirst ==
    (blur # NoBlur /\ blur.img = None) =>
        /\ blur.pc = "raised"
        /\ blur.exc = Raise("gr.Error")
        /\ blur.yields = 0
        /\ blur.logged = <<>>
        /\ ~blur.blueprint

\* The generator has been started without an image.
C15_Witness == blur # NoBlur /\ blur.img = None /\ blur.pc = "raised"

====
